---------------------------- MODULE Spec2Model ----------------------------
(***************************************************************************)
(* A model of main.py of the bet code converter: the convert endpoint, the *)
(* SportyBet slip resolver that drives the page-fetch tool, the text and   *)
(* payload leg extractors, the market translator and the code synthesizer. *)
(*                                                                         *)
(* Strings that the code looks into (page text, odds literals, market      *)
(* names) are sequences of one-character strings.  A Python value of the   *)
(* loosely typed payload is a record [k, s, n]: k is its kind, s its       *)
(* characters (kind "str"), n its number in hundredths (kind "num").       *)
(***************************************************************************)
EXTENDS Integers, Sequences, FiniteSets, TLC

VARIABLES
    text,        \* parse_slip_from_text: the argument
    textOut,     \* parse_slip_from_text: what the call returned
    textPc,      \* "call" before the call, "done" after it
    payload,     \* parse_slip_from_payload: the argument
    payOut,      \* parse_slip_from_payload: what the call returned
    payRead,     \* the top-level keys the call looked up, in order
    payPc,       \* "call" before the call, "done" after it
    pc,          \* convert: where the handler and the resolver it calls stand
    req,         \* convert: the request being served
    response,    \* convert: the response returned
    slip,        \* convert: its local slip, what the resolution gave
    resolverCalls, \* how often fetch_sportybet_slip_playwright was called
    demoLookups, \* how often the demo table was looked up
    pw,          \* the scoped sync_playwright() instance
    browser,     \* the browser launched from it
    urlIdx,      \* for url in urls: the place in urls
    selIdx,      \* for sel in selectors_to_try: the place in the list
    navs,        \* the urls page.goto was called on, in call order
    navFailed,   \* the urls whose page.goto raised
    tried,       \* the strategies run, in order, each with the legs it gave
    caught,      \* the exception that reached the resolver's outer handler
    mkLegs,      \* map_markets: the legs given
    mkFrom,      \* map_markets: from_plat
    mkOut,       \* map_markets: what the call returned
    mkBack,      \* map_markets on mkOut, from the other platform back to mkFrom
    mkPc,        \* "call", "mapped" after the call, "back" after the second
    codeTo,      \* generate_booking_code_for_demo: to_plat
    codeHash,    \* generate_booking_code_for_demo: hash(source_code)
    codeOut,     \* generate_booking_code_for_demo: the code returned
    codePc,      \* "call" before the call, "done" after it
    markup,      \* extract_json_payload_from_html: the html given
    htmlOut,     \* extract_json_payload_from_html: what the call returned
    htmlPc,      \* "call" before the call, "done" after it
    active,      \* ConnectionManager.active, the registry of peers
    hpc,         \* websocket_chat: where the handler of each peer stands
    bIdx,        \* broadcast of a peer: how far its list iterator has moved
    to_remove,   \* broadcast of a peer: its local to_remove
    bStart,      \* broadcast of a peer: the registry when it began
    bSent,       \* broadcast of a peer: the send_text calls, each with its outcome
    bChanged,    \* broadcast of a peer: another handler changed the registry
    bGone,       \* broadcast of a peer: the peers others removed meanwhile
    bEnd,        \* broadcast of a peer: the registry when it returned
    bDone,       \* the peer has a broadcast that returned
    msgs         \* how many texts were received so far

textVars == <<text, textOut, textPc>>

payVars == <<payload, payOut, payRead, payPc>>

convVars ==
    <<pc, req, response, slip, resolverCalls, demoLookups, pw, browser,
      urlIdx, selIdx, navs, navFailed, tried, caught>>

mkVars == <<mkLegs, mkFrom, mkOut, mkBack, mkPc>>

codeVars == <<codeTo, codeHash, codeOut, codePc>>

htmlVars == <<markup, htmlOut, htmlPc>>

chatVars ==
    <<active, hpc, bIdx, to_remove, bStart, bSent, bChanged, bGone, bEnd, bDone, msgs>>

vars ==
    <<text, textOut, textPc, payload, payOut, payRead, payPc,
      pc, req, response, slip, resolverCalls, demoLookups, pw, browser,
      urlIdx, selIdx, navs, navFailed, tried, caught,
      mkLegs, mkFrom, mkOut, mkBack, mkPc, codeTo, codeHash, codeOut, codePc,
      markup, htmlOut, htmlPc,
      active, hpc, bIdx, to_remove, bStart, bSent, bChanged, bGone, bEnd, bDone, msgs>>

-----------------------------------------------------------------------------
(* Python values *)

NoneV == [k |-> "none", s |-> <<>>, n |-> 0]

Str(chars) == [k |-> "str", s |-> chars, n |-> 0]

Num(hundredths) == [k |-> "num", s |-> <<>>, n |-> hundredths]

\* a non-empty list or object met where a scalar is expected
Other == [k |-> "other", s |-> <<>>, n |-> 0]

\* Python truth of a value: None, "", 0 are false
Truthy(v) ==
    CASE v.k = "none" -> FALSE
      [] v.k = "str" -> v.s # <<>>
      [] v.k = "num" -> v.n # 0
      [] OTHER -> TRUE

\* what a function call ends with: a leg list, None, or a raised exception
RetLegs(legs) == [k |-> "legs", legs |-> legs, exc |-> "none"]

RetNone == [k |-> "none", legs |-> <<>>, exc |-> "none"]

RetRaise(exc) == [k |-> "raise", legs |-> <<>>, exc |-> exc]

NotCalled == [k |-> "notcalled", legs |-> <<>>, exc |-> "none"]

\* the sequences over S of length n at most, from which inputs are drawn
RECURSIVE SeqsUpTo(_, _)
SeqsUpTo(S, n) ==
    IF n = 0 THEN {<<>>}
    ELSE LET shorter == SeqsUpTo(S, n - 1)
         IN  shorter \cup {Append(q, c) : q \in {r \in shorter : Len(r) = n - 1}, c \in S}

-----------------------------------------------------------------------------
(* parse_slip_from_text *)

\* the characters \s matches and strip() removes, among those of the model
IsSpace(c) == c \in {" ", "\t"}

\* the line boundaries of str.splitlines(), among the characters of the model
IsLineBreak(c) == c = "\n"

\* without re.I a letter matches itself only
LowerAsIs(c) == c

\* re.I: the pattern letters v and s match either case
Lower(c) ==
    CASE c = "V" -> "v"
      [] c = "S" -> "s"
      [] OTHER -> c

RECURSIVE LStrip(_)
LStrip(s) ==
    IF s # <<>> /\ IsSpace(Head(s)) THEN LStrip(Tail(s)) ELSE s

RECURSIVE RStrip(_)
RStrip(s) ==
    IF s # <<>> /\ IsSpace(s[Len(s)]) THEN RStrip(SubSeq(s, 1, Len(s) - 1)) ELSE s

\* str.strip()
Strip(s) == RStrip(LStrip(s))

\* str.splitlines(): the pieces between line breaks; a final line break opens
\* no further line
RECURSIVE SplitFrom(_, _, _)
SplitFrom(s, i, cur) ==
    IF i > Len(s) THEN (IF cur = <<>> THEN <<>> ELSE <<cur>>)
    ELSE IF IsLineBreak(s[i]) THEN <<cur>> \o SplitFrom(s, i + 1, <<>>)
    ELSE SplitFrom(s, i + 1, Append(cur, s[i]))

SplitLines(s) == SplitFrom(s, 1, <<>>)

\* lines = [l for l in text.splitlines() if l.strip()], the lines as they are
RECURSIVE NonBlankLines(_)
NonBlankLines(ls) ==
    IF ls = <<>> THEN <<>>
    ELSE IF Strip(Head(ls)) = <<>> THEN NonBlankLines(Tail(ls))
    ELSE <<Head(ls)>> \o NonBlankLines(Tail(ls))

\* lines = [l.strip() for l in text.splitlines() if l.strip()]
RECURSIVE StrippedLines(_)
StrippedLines(ls) ==
    IF ls = <<>> THEN <<>>
    ELSE IF Strip(Head(ls)) = <<>> THEN StrippedLines(Tail(ls))
    ELSE <<Strip(Head(ls))>> \o StrippedLines(Tail(ls))

\* how many whitespace characters stand at line[i], line[i+1], ...
RECURSIVE SpaceRun(_, _)
SpaceRun(line, i) ==
    IF i <= Len(line) /\ IsSpace(line[i]) THEN 1 + SpaceRun(line, i + 1) ELSE 0

\* `\s+(.+)` at position j: where group 2 starts, 0 for no match.  \s+ is
\* greedy and gives back one character only when nothing is left for (.+)
Group2Start(line, j) ==
    LET w == SpaceRun(line, j)
    IN  IF w = 0 THEN 0
        ELSE IF j + w <= Len(line) THEN j + w
        ELSE IF w >= 2 THEN j + w - 1
        ELSE 0

\* `\s+v(?:s|\.)?\s+(.+)` at position i: where group 2 starts, 0 for no match.
\* The optional (?:s|\.) is tried taken first, then skipped
TailMatchV(line, i) ==
    LET w == SpaceRun(line, i)
        k == i + w
    IN  IF w = 0 \/ k > Len(line) \/ Lower(line[k]) # "v" THEN 0
        ELSE LET taken == IF k + 1 <= Len(line) /\ Lower(line[k + 1]) \in {"s", "."}
                          THEN Group2Start(line, k + 2)
                          ELSE 0
             IN  IF taken # 0 THEN taken ELSE Group2Start(line, k + 1)

\* `\s+vs\s+(.+)` at position i: where group 2 starts, 0 for no match
TailMatchVs(line, i) ==
    LET w == SpaceRun(line, i)
        k == i + w
    IN  IF w = 0 \/ k + 1 > Len(line) \/ Lower(line[k]) # "v" \/ Lower(line[k + 1]) # "s"
        THEN 0
        ELSE Group2Start(line, k + 2)

NoMatch == [found |-> FALSE, g1 |-> <<>>, g2 |-> <<>>]

\* re.search of `(.+?)` followed by a tail: start positions left to right,
\* and for each the lazy group 1 grown one character at a time
RECURSIVE SearchV(_, _, _)
SearchV(line, p, e) ==
    IF p > Len(line) THEN NoMatch
    ELSE IF e > Len(line) THEN SearchV(line, p + 1, p + 1)
    ELSE IF TailMatchV(line, e + 1) # 0
         THEN [found |-> TRUE, g1 |-> SubSeq(line, p, e),
               g2 |-> SubSeq(line, TailMatchV(line, e + 1), Len(line))]
    ELSE SearchV(line, p, e + 1)

RECURSIVE SearchVs(_, _, _)
SearchVs(line, p, e) ==
    IF p > Len(line) THEN NoMatch
    ELSE IF e > Len(line) THEN SearchVs(line, p + 1, p + 1)
    ELSE IF TailMatchVs(line, e + 1) # 0
         THEN [found |-> TRUE, g1 |-> SubSeq(line, p, e),
               g2 |-> SubSeq(line, TailMatchVs(line, e + 1), Len(line))]
    ELSE SearchVs(line, p, e + 1)

\* a line matcher that knows the spelled-out "vs" alone
MatchLineVsOnly(line) == SearchVs(line, 1, 1)

\* m = re.search(first pattern); if not m: m = re.search(second pattern)
MatchLine(line) ==
    IF SearchV(line, 1, 1).found THEN SearchV(line, 1, 1) ELSE SearchVs(line, 1, 1)

UnknownMarket == <<"U", "n", "k", "n", "o", "w", "n">>

\* the leg appended for a matching line
TextLeg(m) ==
    [home |-> Str(Strip(m.g1)), away |-> Str(Strip(m.g2)),
     market |-> Str(UnknownMarket), pick |-> Str(<<>>), odds |-> NoneV]

RECURSIVE TextLegs(_)
TextLegs(lines) ==
    IF lines = <<>> THEN <<>>
    ELSE (IF MatchLine(Head(lines)).found THEN <<TextLeg(MatchLine(Head(lines)))>> ELSE <<>>)
         \o TextLegs(Tail(lines))

\* return legs if legs else None
parse_slip_from_text(t) ==
    LET legs == TextLegs(StrippedLines(SplitLines(t)))
    IN  IF legs # <<>> THEN RetLegs(legs) ELSE RetNone

-----------------------------------------------------------------------------
(* parse_slip_from_payload *)

\* the same keys with the bets ahead of the booking
PayloadKeysBetsFirst == <<"bets", "booking", "slip", "items", "data">>

\* for key in ("booking", "slip", "bets", "items", "data")
PayloadKeys == <<"booking", "slip", "bets", "items", "data">>

HomeAliases == <<"home", "team1", "homeName">>

AwayAliases == <<"away", "team2", "awayName">>

MarketAliases == <<"market", "marketName", "type">>

PickAliases == <<"pick", "selection">>

OddsAliases == <<"odds", "price", "odd">>

\* dict.get(key): the value, None for a missing key
Get(d, key) == IF key \in DOMAIN d THEN d[key] ELSE NoneV

\* it.get(a1) or it.get(a2) or ... or default: the first true operand
RECURSIVE OrChain(_, _, _)
OrChain(d, aliases, default) ==
    IF aliases = <<>> THEN default
    ELSE IF Truthy(Get(d, Head(aliases))) THEN Get(d, Head(aliases))
    ELSE OrChain(d, Tail(aliases), default)

DigitValue(c) ==
    CASE c = "0" -> 0 [] c = "1" -> 1 [] c = "2" -> 2 [] c = "3" -> 3 [] c = "4" -> 4
      [] c = "5" -> 5 [] c = "6" -> 6 [] c = "7" -> 7 [] c = "8" -> 8 [] c = "9" -> 9
      [] OTHER -> -1

AllDigits(s) == \A i \in 1..Len(s) : DigitValue(s[i]) >= 0

RECURSIVE DigitsValue(_)
DigitsValue(s) ==
    IF s = <<>> THEN 0 ELSE 10 * DigitsValue(SubSeq(s, 1, Len(s) - 1)) + DigitValue(s[Len(s)])

\* the first two decimals of a fraction, in hundredths
Hundredths(frac) ==
    IF Len(frac) = 0 THEN 0
    ELSE IF Len(frac) = 1 THEN 10 * DigitValue(frac[1])
    ELSE 10 * DigitValue(frac[1]) + DigitValue(frac[2])

\* float(str) on a string of digits, dots and letters: digits with at most
\* one dot and at least one digit, in hundredths; -1 for ValueError
ParseDecimal(s) ==
    LET dots == {i \in 1..Len(s) : s[i] = "."}
    IN  IF dots = {}
        THEN (IF s # <<>> /\ AllDigits(s) THEN 100 * DigitsValue(s) ELSE -1)
        ELSE IF Cardinality(dots) > 1 THEN -1
        ELSE LET d == CHOOSE i \in dots : TRUE
                 whole == SubSeq(s, 1, d - 1)
                 frac == SubSeq(s, d + 1, Len(s))
             IN  IF AllDigits(whole) /\ AllDigits(frac) /\ Len(whole) + Len(frac) > 0
                 THEN 100 * DigitsValue(whole) + Hundredths(frac)
                 ELSE -1

\* try: odds = float(odds) if odds else None; except Exception: odds = None
CoerceOdds(v) ==
    IF ~Truthy(v) THEN NoneV
    ELSE CASE v.k = "num" -> v
           [] v.k = "str" -> (IF ParseDecimal(v.s) >= 0 THEN Num(ParseDecimal(v.s)) ELSE NoneV)
           [] OTHER -> NoneV

\* the leg built from one item that is an object
ItemLeg(d) ==
    [home |-> OrChain(d, HomeAliases, Str(<<>>)),
     away |-> OrChain(d, AwayAliases, Str(<<>>)),
     market |-> OrChain(d, MarketAliases, Str(<<>>)),
     pick |-> OrChain(d, PickAliases, Str(<<>>)),
     odds |-> CoerceOdds(OrChain(d, OddsAliases, NoneV))]

\* for it in data: ... legs.append(...); it.get raises AttributeError on an
\* item that is no object, and nothing in the function catches it
ItemsLegs(items) ==
    IF \E i \in 1..Len(items) : ~items[i].isdict
    THEN RetRaise("AttributeError")
    ELSE RetLegs([i \in 1..Len(items) |-> ItemLeg(items[i].d)])

\* data = payload.get(key) for a key the payload may lack
TopGet(p, key) == IF key \in DOMAIN p THEN p[key] ELSE [k |-> "none", items |-> <<>>]

\* not data: None, an empty list
TopFalsy(data) == data.k = "none" \/ (data.k = "list" /\ data.items = <<>>)

\* the loop over the keys from the i-th on; read collects the keys looked up
RECURSIVE PayloadWalk(_, _, _, _)
PayloadWalk(p, keys, i, read) ==
    IF i > Len(keys) THEN [ret |-> RetNone, read |-> read]
    ELSE LET data == TopGet(p, keys[i])
             seen == Append(read, keys[i])
         IN  IF TopFalsy(data) THEN PayloadWalk(p, keys, i + 1, seen)
             ELSE IF data.k = "list"
                  THEN (IF ItemsLegs(data.items).k = "legs" /\ ItemsLegs(data.items).legs = <<>>
                        THEN PayloadWalk(p, keys, i + 1, seen)
                        ELSE [ret |-> ItemsLegs(data.items), read |-> seen])
             ELSE PayloadWalk(p, keys, i + 1, seen)

PayloadRun(p) == PayloadWalk(p, PayloadKeys, 1, <<>>)

parse_slip_from_payload(p) == PayloadRun(p).ret

-----------------------------------------------------------------------------
(* The payloads parse_slip_from_payload is checked on *)

MaxItems == 2

NameX == Str(<<"X">>)

NameY == Str(<<"Y">>)

\* every object over the given aliases with values from vals, a key may lack
DictsOver(aliases, vals) ==
    UNION {[D -> vals] : D \in SUBSET {aliases[i] : i \in 1..Len(aliases)}}

TextValues == {NoneV, Str(<<>>), NameX, NameY}

OddsValues ==
    {Str(<<>>), Str(<<"1", ".", "5">>), Str(<<"2">>), Str(<<"1", ".", "x">>),
     Num(0), Num(195), Other}

ObjectItem(d) == [isdict |-> TRUE, d |-> d]

\* a list element that is no object, such as a number or a string
ScalarItem == [isdict |-> FALSE, d |-> <<>>]

\* the objects that fill the aliases of one leg field in every way
FieldItems ==
    {ObjectItem(d) : d \in DictsOver(HomeAliases, TextValues)
                         \cup DictsOver(AwayAliases, TextValues)
                         \cup DictsOver(MarketAliases, TextValues)
                         \cup DictsOver(PickAliases, TextValues)
                         \cup DictsOver(OddsAliases, OddsValues)}

SampleItems ==
    { ObjectItem(("team1" :> NameX) @@ ("team2" :> NameY) @@ ("price" :> Str(<<"1", ".", "5">>))),
      ObjectItem(("home" :> NameY) @@ ("awayName" :> NameX) @@ ("type" :> Str(<<"G", "G">>))
                 @@ ("selection" :> Str(<<"Y", "e", "s">>)) @@ ("odd" :> Str(<<"1", ".", "x">>))),
      ObjectItem(<<>>),
      ScalarItem }

ItemLists ==
    {<<it>> : it \in FieldItems} \cup SeqsUpTo(SampleItems, MaxItems)

TopList(items) == [k |-> "list", items |-> items]

\* a true value that is no list: an object, a string, a number
TopOther == [k |-> "other", items |-> <<>>]

TopNone == [k |-> "none", items |-> <<>>]

TopSamples ==
    { TopNone, TopOther, TopList(<<>>),
      TopList(<<ObjectItem(("home" :> NameX) @@ ("away" :> NameY))>>),
      TopList(<<ObjectItem(("team1" :> NameY) @@ ("team2" :> NameX)), ObjectItem(<<>>)>>),
      TopList(<<ScalarItem>>) }

KeySet == {PayloadKeys[i] : i \in 1..Len(PayloadKeys)}

Payloads ==
    UNION {[D -> TopSamples] : D \in SUBSET KeySet}
    \cup {("bets" :> TopList(items)) : items \in ItemLists}

-----------------------------------------------------------------------------
(* The texts parse_slip_from_text is checked on *)

MaxTextLen == 6

MaxLines == 3

TextAlphabet == {"A", "v", "s", ".", " "}

ShortTexts == SeqsUpTo(TextAlphabet, MaxTextLen)

SampleLines ==
    { <<"A", " ", "v", "s", " ", "B">>,
      <<"B", " ", "V", "S", " ", "A">>,
      <<"A", "B", " ", "v", ".", " ", "B">>,
      <<"A", " ", "v", "s", ".", " ", "B">>,
      <<"A", "\t", "v", " ", " ", "B", " ", "v", "s", " ", "A">>,
      <<" ", "B", " ", "v", " ", "A", " ">>,
      <<"A", "v", "s", "B">>,
      <<"v", "s", " ", "B">>,
      <<" ", "\t">>,
      <<>> }

RECURSIVE JoinLines(_)
JoinLines(ls) ==
    IF ls = <<>> THEN <<>>
    ELSE IF Len(ls) = 1 THEN Head(ls)
    ELSE Head(ls) \o <<"\n">> \o JoinLines(Tail(ls))

LongTexts == {JoinLines(ls) : ls \in SeqsUpTo(SampleLines, MaxLines)}

Texts == ShortTexts \cup LongTexts

-----------------------------------------------------------------------------
(* Specification of parse_slip_from_text on every text of Texts *)

\* the variables of parse_slip_from_text, when it is not the one checked
TextIdle ==
    /\ text = <<>>
    /\ textOut = NotCalled
    /\ textPc = "idle"

\* the variables of parse_slip_from_payload, when it is not the one checked
PayloadIdle ==
    /\ payload = <<>>
    /\ payOut = NotCalled
    /\ payRead = <<>>
    /\ payPc = "idle"

\* the variables of map_markets, when it is not the one checked
MarketsIdle ==
    /\ mkLegs = <<>>
    /\ mkFrom = "none"
    /\ mkOut = NotCalled
    /\ mkBack = NotCalled
    /\ mkPc = "idle"

\* the variables of generate_booking_code_for_demo, when it is not checked
CodeIdle ==
    /\ codeTo = "none"
    /\ codeHash = 0
    /\ codeOut = <<>>
    /\ codePc = "idle"

\* the variables of extract_json_payload_from_html, when it is not checked
HtmlIdle ==
    /\ markup = <<>>
    /\ htmlOut = <<>>
    /\ htmlPc = "idle"

\* the variables of the chat channel, when it is not the one checked
ChatIdle ==
    /\ active = <<>>
    /\ hpc = <<>>
    /\ bIdx = <<>>
    /\ to_remove = <<>>
    /\ bStart = <<>>
    /\ bSent = <<>>
    /\ bChanged = <<>>
    /\ bGone = <<>>
    /\ bEnd = <<>>
    /\ bDone = <<>>
    /\ msgs = 0

-----------------------------------------------------------------------------
(* extract_json_payload_from_html *)

\* The markup is modelled by what re.search finds in it for each of the five
\* patterns, in the order of the list: nothing, a captured text json.loads
\* rejects, or a captured text and the object json.loads reads from it.
NoCapture == [k |-> "nomatch", value |-> <<>>]

BadCapture == [k |-> "badjson", value |-> <<>>]

JsonCapture(obj) == [k |-> "json", value |-> obj]

\* the same with return None where the second exception is met
RECURSIVE ExtractUntilBadJson(_, _)
ExtractUntilBadJson(html, i) ==
    IF i > Len(html) THEN [k |-> "none", value |-> <<>>]
    ELSE IF html[i].k = "json" THEN [k |-> "payload", value |-> html[i].value]
    ELSE IF html[i].k = "badjson" THEN [k |-> "none", value |-> <<>>]
    ELSE ExtractUntilBadJson(html, i + 1)

\* for pat in patterns: no match, continue; json.loads; on an exception the
\* same text is given to json.loads again; on the second exception continue
RECURSIVE ExtractFrom(_, _)
ExtractFrom(html, i) ==
    IF i > Len(html) THEN [k |-> "none", value |-> <<>>]
    ELSE IF html[i].k = "json" THEN [k |-> "payload", value |-> html[i].value]
    ELSE ExtractFrom(html, i + 1)

extract_json_payload_from_html(html) == ExtractFrom(html, 1)

-----------------------------------------------------------------------------
(* map_markets and generate_booking_code_for_demo *)

M_1X2 == <<"1", "X", "2">>

M_MatchResult == <<"M", "a", "t", "c", "h", " ", "R", "e", "s", "u", "l", "t">>

M_GG == <<"G", "G">>

M_BothTeams ==
    <<"B", "o", "t", "h", " ", "T", "e", "a", "m", "s", " ", "T", "o", " ",
      "S", "c", "o", "r", "e">>

M_OU25 == <<"O", "/", "U", " ", "2", ".", "5">>

M_OverUnder ==
    <<"O", "v", "e", "r", "/", "U", "n", "d", "e", "r", " ", "2", ".", "5", " ",
      "G", "o", "a", "l", "s">>

\* the table with the GG entry of bet9ja gone: GG goes out and does not
\* come back
MARKET_MAP_OneWay ==
    { [plat |-> "sportybet", market |-> M_1X2, mapped |-> M_MatchResult],
      [plat |-> "sportybet", market |-> M_GG, mapped |-> M_BothTeams],
      [plat |-> "sportybet", market |-> M_OU25, mapped |-> M_OverUnder],
      [plat |-> "bet9ja", market |-> M_MatchResult, mapped |-> M_1X2],
      [plat |-> "bet9ja", market |-> M_OverUnder, mapped |-> M_OU25] }

MARKET_MAP ==
    { [plat |-> "sportybet", market |-> M_1X2, mapped |-> M_MatchResult],
      [plat |-> "sportybet", market |-> M_GG, mapped |-> M_BothTeams],
      [plat |-> "sportybet", market |-> M_OU25, mapped |-> M_OverUnder],
      [plat |-> "bet9ja", market |-> M_MatchResult, mapped |-> M_1X2],
      [plat |-> "bet9ja", market |-> M_BothTeams, mapped |-> M_GG],
      [plat |-> "bet9ja", market |-> M_OverUnder, mapped |-> M_OU25] }

\* MARKET_MAP.get((from_plat, market_in), market_in)
MarketLookup(from_plat, market_in) ==
    LET hits == {e \in MARKET_MAP : e.plat = from_plat /\ market_in = Str(e.market)}
    IN  IF hits = {} THEN market_in ELSE Str((CHOOSE e \in hits : TRUE).mapped)

\* a list or an object cannot be hashed for the table lookup: TypeError
map_markets(legs, from_plat, to_plat) ==
    IF \E i \in 1..Len(legs) : legs[i].market.k = "other"
    THEN RetRaise("TypeError")
    ELSE RetLegs([i \in 1..Len(legs) |->
                    [legs[i] EXCEPT !.market = MarketLookup(from_plat, legs[i].market)]])

DigitChar(d) ==
    CASE d = 0 -> "0" [] d = 1 -> "1" [] d = 2 -> "2" [] d = 3 -> "3" [] d = 4 -> "4"
      [] d = 5 -> "5" [] d = 6 -> "6" [] d = 7 -> "7" [] d = 8 -> "8" [] d = 9 -> "9"

RECURSIVE DecimalDigits(_)
DecimalDigits(n) ==
    IF n < 10 THEN <<DigitChar(n)>>
    ELSE Append(DecimalDigits(n \div 10), DigitChar(n % 10))

RECURSIVE ZeroPad(_, _)
ZeroPad(s, width) == IF Len(s) >= width THEN s ELSE ZeroPad(<<"0">> \o s, width)

\* format spec d, without the width and the zero fill
FormatD(n) == DecimalDigits(n)

\* format spec 05d
Format05d(n) == ZeroPad(DecimalDigits(n), 5)

Abs(n) == IF n < 0 THEN -n ELSE n

\* hash(source_code) is whatever integer h the running interpreter gives
generate_booking_code_for_demo(to_plat, h) ==
    (IF to_plat = "bet9ja" THEN <<"B", "J">> ELSE <<"S", "P">>)
        \o Format05d(Abs(h) % 100000)

-----------------------------------------------------------------------------
(* fetch_sportybet_slip_playwright *)

\* the four url templates, by what follows the site name
urls == <<"/ng/m/sporty/booking?bookingCode=", "/ng/m/?b=", "/ng/m/sporty-code-share/", "/share/">>

selectors_to_try ==
    <<"div.share-bet-slip", "div.booking-container", "div.bet-slip",
      "div.sports-bet-slip", "div[class*='slip']">>

\* the place of the embedded-payload step among the strategies of one url
PayloadStage == Len(selectors_to_try) + 1

SlipOf(legs) == [k |-> "slip", legs |-> legs, exc |-> "none"]

NoSlip == [k |-> "none", legs |-> <<>>, exc |-> "none"]

\* an exception leaving the function instead of a return value
Fault(exc) == [k |-> "raise", legs |-> <<>>, exc |-> exc]

\* a handler that lets everything but the tool's own errors through
OuterCatchesToolErrorsOnly(exc) == exc = "PlaywrightError"

\* except PlaywrightError ... except Exception: every exception is caught
OuterCatches(exc) == TRUE

\* a tool started by hand, with nothing that stops it when the block is left
ScopeExitAbsent(state) == state

\* with sync_playwright() as p: leaving the block, by return or by an
\* exception, stops the instance
ScopeExit(state) == IF state = "open" THEN "stopped" ELSE state

\* the driver that is stopped takes the browser it launched with it;
\* browser.close() closes it before
BrowserAfter(pwAfter, state) ==
    IF state = "open" /\ pwAfter = "stopped" THEN "closed" ELSE state

\* a test that lets any parse result through
AnyLegs(r) == TRUE

\* if legs:
HasLegs(r) == r.k = "legs" /\ r.legs # <<>>

\* a selector loop left for the payload step after any selector
AfterSelectorLeavesLoop(j) == "content"

\* the selector loop goes on with the next selector; after the last one the
\* embedded-payload step follows
AfterSelector(j) == IF j < Len(selectors_to_try) THEN "select" ELSE "content"

\* a navigation failure that gives the whole resolution up
GotoFailedGivesUp(u) == Len(urls) + 1

\* except Exception: continue -- the next url, Len(urls) + 1 when none is left
GotoFailed(u) == u + 1

\* return from inside the with block: the scope is left
ReturnFromResolver(result) ==
    /\ pc' = "returned"
    /\ slip' = result
    /\ pw' = ScopeExit(pw)
    /\ browser' = BrowserAfter(ScopeExit(pw), browser)

\* an exception leaves the with block and reaches the outer handlers
RaiseInResolver(exc) ==
    /\ ReturnFromResolver(IF OuterCatches(exc) THEN NoSlip ELSE Fault(exc))
    /\ caught' = IF OuterCatches(exc) THEN exc ELSE caught

\* the for loop over urls goes on with url u, or is over: browser.close(),
\* and the function returns None
ContinueWithUrl(u) ==
    IF u <= Len(urls)
    THEN /\ pc' = "goto"
         /\ urlIdx' = u
         /\ UNCHANGED <<slip, pw, browser>>
    ELSE /\ urlIdx' = u
         /\ browser' = "closed"
         /\ pc' = "returned"
         /\ slip' = NoSlip
         /\ pw' = ScopeExit(pw)

\* with sync_playwright() as p
StartPlaywright ==
    /\ pc = "enter"
    /\ \E ok \in BOOLEAN :
        IF ok
        THEN /\ pw' = "open"
             /\ pc' = "launch"
             /\ UNCHANGED <<slip, browser, caught>>
        ELSE RaiseInResolver("PlaywrightError")
    /\ UNCHANGED <<req, response, resolverCalls, demoLookups, urlIdx, selIdx,
                   navs, navFailed, tried, textVars, payVars,
                   mkVars, codeVars, htmlVars, chatVars>>

\* browser = p.chromium.launch(...)
LaunchBrowser ==
    /\ pc = "launch"
    /\ \E ok \in BOOLEAN :
        IF ok
        THEN /\ browser' = "open"
             /\ pc' = "newpage"
             /\ UNCHANGED <<slip, pw, caught>>
        ELSE RaiseInResolver("PlaywrightError")
    /\ UNCHANGED <<req, response, resolverCalls, demoLookups, urlIdx, selIdx,
                   navs, navFailed, tried, textVars, payVars,
                   mkVars, codeVars, htmlVars, chatVars>>

\* page = browser.new_page(); page.set_default_timeout(timeout * 1000)
NewPage ==
    /\ pc = "newpage"
    /\ \E ok \in BOOLEAN :
        IF ok
        THEN /\ pc' = "goto"
             /\ urlIdx' = 1
             /\ UNCHANGED <<slip, pw, browser, caught>>
        ELSE /\ RaiseInResolver("PlaywrightError")
             /\ UNCHANGED urlIdx
    /\ UNCHANGED <<req, response, resolverCalls, demoLookups, selIdx,
                   navs, navFailed, tried, textVars, payVars,
                   mkVars, codeVars, htmlVars, chatVars>>

\* try: page.goto(url) except Exception: continue
Goto ==
    /\ pc = "goto"
    /\ navs' = Append(navs, urlIdx)
    /\ \E ok \in BOOLEAN :
        IF ok
        THEN /\ pc' = "select"
             /\ selIdx' = 1
             /\ UNCHANGED <<slip, pw, browser, urlIdx, navFailed>>
        ELSE /\ navFailed' = navFailed \cup {urlIdx}
             /\ ContinueWithUrl(GotoFailed(urlIdx))
             /\ UNCHANGED selIdx
    /\ UNCHANGED <<req, response, resolverCalls, demoLookups, tried, caught,
                   textVars, payVars,
                   mkVars, codeVars, htmlVars, chatVars>>

\* the texts page.inner_text may give
SampleTexts ==
    { <<"A", " ", "v", "s", " ", "B">>,
      <<"B", " ", "v", " ", "A", "\n", "A", "B", "\n", "A", " ", "V", "s", " ", "A">>,
      <<"A", "v", "s", "B">>,
      <<>> }

\* what one pass of the selector loop meets: query_selector raises, finds no
\* element, or finds one; then inner_text raises or gives a text
SelectorOutcomes ==
    {[k |-> "raises", text |-> <<>>], [k |-> "absent", text |-> <<>>]}
        \cup {[k |-> "text", text |-> t] : t \in SampleTexts}

\* one pass of the loop over selectors_to_try, with any exception caught by the
\* loop's own handler; legs end the function: browser.close(), return
TrySelector ==
    /\ pc = "select"
    /\ \E o \in SelectorOutcomes :
        LET r == IF o.k = "text" THEN parse_slip_from_text(o.text) ELSE RetNone
        IN  IF o.k = "text" /\ HasLegs(r)
            THEN /\ tried' = Append(tried, [url |-> urlIdx, stage |-> selIdx, legs |-> r.legs])
                 /\ browser' = "closed"
                 /\ pc' = "returned"
                 /\ slip' = SlipOf(r.legs)
                 /\ pw' = ScopeExit(pw)
                 /\ UNCHANGED selIdx
            ELSE /\ tried' = Append(tried, [url |-> urlIdx, stage |-> selIdx, legs |-> <<>>])
                 /\ selIdx' = selIdx + 1
                 /\ pc' = AfterSelector(selIdx)
                 /\ UNCHANGED <<slip, pw, browser>>
    /\ UNCHANGED <<req, response, resolverCalls, demoLookups, urlIdx, navs, navFailed,
                   caught, textVars, payVars,
                   mkVars, codeVars, htmlVars, chatVars>>

BetsOf(items) == ("bets" :> TopList(items))

\* the markups page.content may give
SampleHtmls ==
    { <<NoCapture, NoCapture, NoCapture, NoCapture, NoCapture>>,
      <<JsonCapture(BetsOf(<<ObjectItem(("team1" :> NameX) @@ ("team2" :> NameY)
                                        @@ ("marketName" :> Str(M_1X2)))>>)),
        NoCapture, NoCapture, NoCapture, NoCapture>>,
      <<BadCapture, NoCapture, NoCapture, NoCapture,
        JsonCapture(BetsOf(<<ObjectItem(("home" :> NameY) @@ ("away" :> NameX)),
                             ObjectItem(("market" :> Other))>>))>>,
      <<NoCapture, BadCapture, NoCapture, JsonCapture(("booking" :> TopList(<<ScalarItem>>))),
        NoCapture>>,
      <<NoCapture, JsonCapture(<<>>), NoCapture, NoCapture, NoCapture>>,
      <<NoCapture, NoCapture, JsonCapture(("user" :> TopOther) @@ ("data" :> TopList(<<>>))),
        NoCapture, NoCapture>> }

\* page.content() raises, or gives a markup
ContentOutcomes ==
    {[k |-> "raises", html |-> <<>>]} \cup {[k |-> "html", html |-> h] : h \in SampleHtmls}

\* if payload: an object with no key is false
PayloadTruthy(found) == found.k = "payload" /\ DOMAIN found.value # {}

\* the embedded-payload step of one url: page.content(),
\* extract_json_payload_from_html, parse_slip_from_payload.  No handler stands
\* between these calls and the outer ones
TryPayload ==
    /\ pc = "content"
    /\ \E o \in ContentOutcomes :
        LET found == extract_json_payload_from_html(o.html)
            r == IF PayloadTruthy(found) THEN parse_slip_from_payload(found.value) ELSE RetNone
        IN  IF o.k = "raises"
            THEN /\ tried' = Append(tried, [url |-> urlIdx, stage |-> PayloadStage, legs |-> <<>>])
                 /\ RaiseInResolver("PlaywrightError")
                 /\ UNCHANGED urlIdx
            ELSE IF r.k = "raise"
            THEN /\ tried' = Append(tried, [url |-> urlIdx, stage |-> PayloadStage, legs |-> <<>>])
                 /\ RaiseInResolver(r.exc)
                 /\ UNCHANGED urlIdx
            ELSE IF HasLegs(r)
            THEN /\ tried' = Append(tried, [url |-> urlIdx, stage |-> PayloadStage, legs |-> r.legs])
                 /\ browser' = "closed"
                 /\ pc' = "returned"
                 /\ slip' = SlipOf(r.legs)
                 /\ pw' = ScopeExit(pw)
                 /\ UNCHANGED <<urlIdx, caught>>
            ELSE /\ tried' = Append(tried, [url |-> urlIdx, stage |-> PayloadStage, legs |-> <<>>])
                 /\ ContinueWithUrl(urlIdx + 1)
                 /\ UNCHANGED caught
    /\ UNCHANGED <<req, response, resolverCalls, demoLookups, selIdx, navs, navFailed,
                   textVars, payVars,
                   mkVars, codeVars, htmlVars, chatVars>>

-----------------------------------------------------------------------------
(* convert *)

Platforms == {"sportybet", "bet9ja"}

\* the booking codes requests carry
Codes == {"BJ99999", "SB12345"}

\* the integers hash(code) may be
HashSamples == {-2147483647, -100001, -7, 0, 42, 99999, 100000, 1234567}

Requests == [code : Codes, from_platform : Platforms, to_platform : Platforms]

NoRequest == [code |-> "", from_platform |-> "", to_platform |-> ""]

NoPreview == [k |-> "none", legs |-> <<>>]

NoResponse == [ok |-> FALSE, message |-> "", converted_code |-> NoneV, preview |-> NoPreview]

\* a failure response that still shows the slip
FailureResponseWithPreview(message) ==
    [ok |-> FALSE, message |-> message, converted_code |-> NoneV,
     preview |-> [k |-> "slip", legs |-> slip.legs]]

\* {"ok": False, "message": ..., "converted_code": None, "preview": None}
FailureResponse(message) ==
    [ok |-> FALSE, message |-> message, converted_code |-> NoneV, preview |-> NoPreview]

\* a handler with no check of the two platforms
NeverSamePlatform(r) == FALSE

\* if req.from_platform == req.to_platform
SamePlatform(r) == r.from_platform = r.to_platform

C_Barcelona == <<"B", "a", "r", "c", "e", "l", "o", "n", "a">>

C_RealMadrid == <<"R", "e", "a", "l", " ", "M", "a", "d", "r", "i", "d">>

\* demo = {"BJ99999": {"legs": [...]}}; slip = demo.get(req.code)
DemoLookup(code) ==
    IF code = "BJ99999"
    THEN SlipOf(<<[home |-> Str(C_Barcelona), away |-> Str(C_RealMadrid),
                   market |-> Str(M_OU25), pick |-> Str(<<"O", "V", "E", "R">>),
                   odds |-> Num(195)]>>)
    ELSE NoSlip

\* the rest of convert once slip is set: if not slip, the failure response;
\* else map_markets, generate_booking_code_for_demo and the success response.
\* An exception of map_markets leaves the handler and no response is built
Respond(r, s) ==
    IF s.k # "slip"
    THEN /\ response' = FailureResponse("Code not found or could not fetch (try a valid SportyBet code).")
         /\ pc' = "responded"
    ELSE IF map_markets(s.legs, r.from_platform, r.to_platform).k = "raise"
    THEN /\ pc' = "faulted"
         /\ UNCHANGED response
    ELSE \E h \in HashSamples :
         /\ response' =
              [ok |-> TRUE, message |-> "Converted (live scrape).",
               converted_code |-> Str(generate_booking_code_for_demo(r.to_platform, h)),
               preview |-> [k |-> "slip",
                            legs |-> map_markets(s.legs, r.from_platform, r.to_platform).legs]]
         /\ pc' = "responded"

\* convert, for a request rejected at once
ConvertSamePlatform ==
    /\ pc = "idle"
    /\ \E r \in Requests :
        /\ SamePlatform(r)
        /\ req' = r
        /\ response' = FailureResponse("From/To platforms are the same.")
        /\ pc' = "responded"
    /\ UNCHANGED <<slip, resolverCalls, demoLookups, pw, browser, urlIdx, selIdx,
                   navs, navFailed, tried, caught, textVars, payVars,
                   mkVars, codeVars, htmlVars, chatVars>>

\* convert from bet9ja: the demo table stands in for a scrape
ConvertBet9ja ==
    /\ pc = "idle"
    /\ \E r \in Requests :
        /\ ~SamePlatform(r)
        /\ r.from_platform = "bet9ja"
        /\ req' = r
        /\ demoLookups' = demoLookups + 1
        /\ slip' = DemoLookup(r.code)
        /\ Respond(r, DemoLookup(r.code))
    /\ UNCHANGED <<resolverCalls, pw, browser, urlIdx, selIdx, navs, navFailed, tried,
                   caught, textVars, payVars,
                   mkVars, codeVars, htmlVars, chatVars>>

\* convert from sportybet, up to the call of the resolver
ConvertSportybet ==
    /\ pc = "idle"
    /\ \E r \in Requests :
        /\ ~SamePlatform(r)
        /\ r.from_platform = "sportybet"
        /\ req' = r
        /\ resolverCalls' = resolverCalls + 1
        /\ pc' = "enter"
    /\ UNCHANGED <<response, slip, demoLookups, pw, browser, urlIdx, selIdx,
                   navs, navFailed, tried, caught, textVars, payVars,
                   mkVars, codeVars, htmlVars, chatVars>>

\* convert from sportybet, from the return of the resolver on; an exception
\* the resolver let through leaves the handler and no response is built
ConvertAfterResolver ==
    /\ pc = "returned"
    /\ IF slip.k = "raise"
       THEN pc' = "faulted" /\ UNCHANGED response
       ELSE Respond(req, slip)
    /\ UNCHANGED <<req, slip, resolverCalls, demoLookups, pw, browser, urlIdx, selIdx,
                   navs, navFailed, tried, caught, textVars, payVars,
                   mkVars, codeVars, htmlVars, chatVars>>

\* the variables of convert, when it is not the one checked
ConvertIdle ==
    /\ pc = "idle"
    /\ req = NoRequest
    /\ response = NoResponse
    /\ slip = NoSlip
    /\ resolverCalls = 0
    /\ demoLookups = 0
    /\ pw = "none"
    /\ browser = "none"
    /\ urlIdx = 0
    /\ selIdx = 0
    /\ navs = <<>>
    /\ navFailed = {}
    /\ tried = <<>>
    /\ caught = "none"

-----------------------------------------------------------------------------
(* Specification of convert: one request, served to its response *)

Init ==
    /\ ConvertIdle
    /\ TextIdle
    /\ PayloadIdle
    /\ MarketsIdle
    /\ CodeIdle
    /\ HtmlIdle
    /\ ChatIdle

Next ==
    \/ ConvertSamePlatform
    \/ ConvertBet9ja
    \/ ConvertSportybet
    \/ StartPlaywright
    \/ LaunchBrowser
    \/ NewPage
    \/ Goto
    \/ TrySelector
    \/ TryPayload
    \/ ConvertAfterResolver

Spec == Init /\ [][Next]_vars

InitText ==
    /\ text \in Texts
    /\ textOut = NotCalled
    /\ textPc = "call"
    /\ PayloadIdle
    /\ ConvertIdle
    /\ MarketsIdle
    /\ CodeIdle
    /\ HtmlIdle
    /\ ChatIdle

CallParseText ==
    /\ textPc = "call"
    /\ textOut' = parse_slip_from_text(text)
    /\ textPc' = "done"
    /\ UNCHANGED <<text, payVars, convVars, mkVars, codeVars, htmlVars, chatVars>>

NextText == CallParseText

SpecText == InitText /\ [][NextText]_vars

-----------------------------------------------------------------------------
(* Specification of parse_slip_from_payload on every payload of Payloads *)

InitPayload ==
    /\ payload \in Payloads
    /\ payOut = NotCalled
    /\ payRead = <<>>
    /\ payPc = "call"
    /\ TextIdle
    /\ ConvertIdle
    /\ MarketsIdle
    /\ CodeIdle
    /\ HtmlIdle
    /\ ChatIdle

CallParsePayload ==
    /\ payPc = "call"
    /\ payOut' = parse_slip_from_payload(payload)
    /\ payRead' = PayloadRun(payload).read
    /\ payPc' = "done"
    /\ UNCHANGED <<payload, textVars, convVars, mkVars, codeVars, htmlVars, chatVars>>

NextPayload == CallParsePayload

SpecPayload == InitPayload /\ [][NextPayload]_vars

-----------------------------------------------------------------------------
(* Specification of map_markets on every leg list of MarketLegLists, mapped  *)
(* from a platform to the other one and then back                           *)

MaxLegs == 2

\* the markets of the table, "Unknown" of the text extractor, "", None, a
\* number, and a list or an object, as a payload item may hold them
MarketValues ==
    { Str(M_1X2), Str(M_MatchResult), Str(M_GG), Str(M_BothTeams), Str(M_OU25),
      Str(M_OverUnder), Str(UnknownMarket), Str(<<>>), NoneV, Num(195), Other }

MarketLegs ==
    {[home |-> NameX, away |-> NameY, market |-> m, pick |-> Str(<<>>), odds |-> NoneV] :
        m \in MarketValues}
    \cup
    {[home |-> NameY, away |-> NameX, market |-> m, pick |-> Str(<<"1">>), odds |-> Num(195)] :
        m \in MarketValues}

MarketLegLists == SeqsUpTo(MarketLegs, MaxLegs)

OtherPlatform(plat) == IF plat = "sportybet" THEN "bet9ja" ELSE "sportybet"

InitMarkets ==
    /\ mkLegs \in MarketLegLists
    /\ mkFrom \in Platforms
    /\ mkOut = NotCalled
    /\ mkBack = NotCalled
    /\ mkPc = "call"
    /\ TextIdle
    /\ PayloadIdle
    /\ ConvertIdle
    /\ CodeIdle
    /\ HtmlIdle
    /\ ChatIdle

CallMapMarkets ==
    /\ mkPc = "call"
    /\ mkOut' = map_markets(mkLegs, mkFrom, OtherPlatform(mkFrom))
    /\ mkPc' = "mapped"
    /\ UNCHANGED <<mkLegs, mkFrom, mkBack, textVars, payVars, convVars,
                   codeVars, htmlVars, chatVars>>

\* the legs map_markets returned, given to it again in the other direction
CallMapBack ==
    /\ mkPc = "mapped"
    /\ mkOut.k = "legs"
    /\ mkBack' = map_markets(mkOut.legs, OtherPlatform(mkFrom), mkFrom)
    /\ mkPc' = "back"
    /\ UNCHANGED <<mkLegs, mkFrom, mkOut, textVars, payVars, convVars,
                   codeVars, htmlVars, chatVars>>

NextMarkets ==
    \/ CallMapMarkets
    \/ CallMapBack

SpecMarkets == InitMarkets /\ [][NextMarkets]_vars

-----------------------------------------------------------------------------
(* Specification of generate_booking_code_for_demo on every target platform *)
(* and every hash value of HashValues                                        *)

MaxHash == 60

\* the hash values of the samples and a range around zero
HashValues == HashSamples \cup (-MaxHash..MaxHash)

\* to_plat is the request's to_platform, any string
CodeTargets == Platforms \cup {"betking"}

InitCode ==
    /\ codeTo \in CodeTargets
    /\ codeHash \in HashValues
    /\ codeOut = <<>>
    /\ codePc = "call"
    /\ TextIdle
    /\ PayloadIdle
    /\ ConvertIdle
    /\ MarketsIdle
    /\ HtmlIdle
    /\ ChatIdle

CallGenerateCode ==
    /\ codePc = "call"
    /\ codeOut' = generate_booking_code_for_demo(codeTo, codeHash)
    /\ codePc' = "done"
    /\ UNCHANGED <<codeTo, codeHash, textVars, payVars, convVars,
                   mkVars, htmlVars, chatVars>>

NextCode == CallGenerateCode

SpecCode == InitCode /\ [][NextCode]_vars

-----------------------------------------------------------------------------
(* ConnectionManager and websocket_chat: the peers of the chat channel, each *)
(* served by its own handler; the handlers interleave at their awaits       *)

MaxPeers == 2

MaxMessages == 2

Peers == 1..MaxPeers

\* ws in self.active
Contains(list, ws) == \E i \in 1..Len(list) : list[i] = ws

\* list.remove(ws): the first occurrence goes
RECURSIVE RemoveFirst(_, _)
RemoveFirst(list, ws) ==
    IF list = <<>> THEN <<>>
    ELSE IF Head(list) = ws THEN Tail(list)
    ELSE <<Head(list)>> \o RemoveFirst(Tail(list), ws)

\* ConnectionManager.disconnect on the registry
disconnect(registry, ws) ==
    IF Contains(registry, ws) THEN RemoveFirst(registry, ws) ELSE registry

\* for c in to_remove: self.disconnect(c)
RECURSIVE DisconnectAll(_, _)
DisconnectAll(registry, rm) ==
    IF rm = <<>> THEN registry
    ELSE DisconnectAll(disconnect(registry, Head(rm)), Tail(rm))

\* except Exception: the failed send is dropped and the peer stays
SendFailureForgotten(rm, conn) == rm

\* except Exception: to_remove.append(conn)
AfterSendFailed(rm, conn) == Append(rm, conn)

Members(list) == {list[i] : i \in 1..Len(list)}

\* what a handler p that makes the registry new does to the broadcasts the
\* other handlers are in the middle of: their registry changed, and the
\* peers that left it are gone
Disturbed(p, new) ==
    [q \in Peers |-> bChanged[q] \/ (q # p /\ hpc[q] = "send" /\ new # active)]

Departed(p, new) ==
    [q \in Peers |->
        IF q # p /\ hpc[q] = "send"
        THEN bGone[q] \cup (Members(active) \ Members(new))
        ELSE bGone[q]]

Disturbs(p, new) ==
    /\ bChanged' = Disturbed(p, new)
    /\ bGone' = Departed(p, new)

\* the list iterator of p's broadcast, i elements behind it, gives the next
\* element and send_text is awaited on it; ok is whether the send succeeds
SendNext(p, i, rm, sent, ok) ==
    LET conn == active[i + 1]
    IN  /\ bIdx' = [bIdx EXCEPT ![p] = i + 1]
        /\ to_remove' = [to_remove EXCEPT ![p] = IF ok THEN rm ELSE AfterSendFailed(rm, conn)]
        /\ bSent' = [bSent EXCEPT ![p] = Append(sent, [to |-> conn, ok |-> ok])]
        /\ hpc' = [hpc EXCEPT ![p] = "send"]

ChatStart ==
    /\ active = <<>>
    /\ hpc = [p \in Peers |-> "new"]
    /\ bIdx = [p \in Peers |-> 0]
    /\ to_remove = [p \in Peers |-> <<>>]
    /\ bStart = [p \in Peers |-> <<>>]
    /\ bSent = [p \in Peers |-> <<>>]
    /\ bChanged = [p \in Peers |-> FALSE]
    /\ bGone = [p \in Peers |-> {}]
    /\ bEnd = [p \in Peers |-> <<>>]
    /\ bDone = [p \in Peers |-> FALSE]
    /\ msgs = 0

\* websocket_chat: await manager.connect(websocket); the peers are numbered
\* in the order they connect
Connect(p) ==
    /\ hpc[p] = "new"
    /\ \A q \in Peers : q < p => hpc[q] # "new"
    /\ active' = Append(active, p)
    /\ hpc' = [hpc EXCEPT ![p] = "recv"]
    /\ Disturbs(p, Append(active, p))
    /\ UNCHANGED <<bIdx, to_remove, bStart, bSent, bEnd, bDone, msgs,
                   textVars, payVars, convVars, mkVars, codeVars, htmlVars>>

\* receive_text raises WebSocketDisconnect: manager.disconnect(websocket);
\* the handler is over and what it recorded of its last broadcast is dropped
Disconnect(p) ==
    /\ hpc[p] = "recv"
    /\ active' = disconnect(active, p)
    /\ hpc' = [hpc EXCEPT ![p] = "closed"]
    /\ bChanged' = [Disturbed(p, disconnect(active, p)) EXCEPT ![p] = FALSE]
    /\ bGone' = [Departed(p, disconnect(active, p)) EXCEPT ![p] = {}]
    /\ bIdx' = [bIdx EXCEPT ![p] = 0]
    /\ to_remove' = [to_remove EXCEPT ![p] = <<>>]
    /\ bStart' = [bStart EXCEPT ![p] = <<>>]
    /\ bSent' = [bSent EXCEPT ![p] = <<>>]
    /\ bEnd' = [bEnd EXCEPT ![p] = <<>>]
    /\ bDone' = [bDone EXCEPT ![p] = FALSE]
    /\ UNCHANGED <<msgs, textVars, payVars, convVars, mkVars, codeVars, htmlVars>>

\* receive_text gives a text and broadcast begins: to_remove = [], the loop
\* takes the first peer of the registry and awaits the send to it
Receive(p) ==
    /\ hpc[p] = "recv"
    /\ msgs < MaxMessages
    /\ active # <<>>
    /\ msgs' = msgs + 1
    /\ bStart' = [bStart EXCEPT ![p] = active]
    /\ bDone' = [bDone EXCEPT ![p] = FALSE]
    /\ bChanged' = [bChanged EXCEPT ![p] = FALSE]
    /\ bGone' = [bGone EXCEPT ![p] = {}]
    /\ \E ok \in BOOLEAN : SendNext(p, 0, <<>>, <<>>, ok)
    /\ UNCHANGED <<active, bEnd, textVars, payVars, convVars, mkVars, codeVars, htmlVars>>

\* the same with an empty registry: both loops of broadcast run zero times
ReceiveNoPeers(p) ==
    /\ hpc[p] = "recv"
    /\ msgs < MaxMessages
    /\ active = <<>>
    /\ msgs' = msgs + 1
    /\ bStart' = [bStart EXCEPT ![p] = <<>>]
    /\ bIdx' = [bIdx EXCEPT ![p] = 0]
    /\ to_remove' = [to_remove EXCEPT ![p] = <<>>]
    /\ bSent' = [bSent EXCEPT ![p] = <<>>]
    /\ bChanged' = [bChanged EXCEPT ![p] = FALSE]
    /\ bGone' = [bGone EXCEPT ![p] = {}]
    /\ bEnd' = [bEnd EXCEPT ![p] = <<>>]
    /\ bDone' = [bDone EXCEPT ![p] = TRUE]
    /\ UNCHANGED <<active, hpc, textVars, payVars, convVars, mkVars, codeVars, htmlVars>>

\* the awaited send of p's broadcast is over and the list iterator, which
\* holds an index into self.active as it is now, has a next element
Send(p) ==
    /\ hpc[p] = "send"
    /\ bIdx[p] < Len(active)
    /\ \E ok \in BOOLEAN : SendNext(p, bIdx[p], to_remove[p], bSent[p], ok)
    /\ UNCHANGED <<active, bStart, bChanged, bGone, bEnd, bDone, msgs,
                   textVars, payVars, convVars, mkVars, codeVars, htmlVars>>

\* the awaited send is over and the iterator is exhausted: the peers of
\* to_remove are disconnected and broadcast returns to the receive loop
EndBroadcast(p) ==
    /\ hpc[p] = "send"
    /\ bIdx[p] >= Len(active)
    /\ active' = DisconnectAll(active, to_remove[p])
    /\ hpc' = [hpc EXCEPT ![p] = "recv"]
    /\ bEnd' = [bEnd EXCEPT ![p] = DisconnectAll(active, to_remove[p])]
    /\ bDone' = [bDone EXCEPT ![p] = TRUE]
    /\ bIdx' = [bIdx EXCEPT ![p] = 0]
    /\ Disturbs(p, DisconnectAll(active, to_remove[p]))
    /\ UNCHANGED <<to_remove, bStart, bSent, msgs,
                   textVars, payVars, convVars, mkVars, codeVars, htmlVars>>

InitChat ==
    /\ ChatStart
    /\ TextIdle
    /\ PayloadIdle
    /\ ConvertIdle
    /\ MarketsIdle
    /\ CodeIdle
    /\ HtmlIdle

NextChat ==
    \/ \E p \in Peers : Connect(p)
    \/ \E p \in Peers : Disconnect(p)
    \/ \E p \in Peers : Receive(p)
    \/ \E p \in Peers : ReceiveNoPeers(p)
    \/ \E p \in Peers : Send(p)
    \/ \E p \in Peers : EndBroadcast(p)

SpecChat == InitChat /\ [][NextChat]_vars

-----------------------------------------------------------------------------
(* Specification of extract_json_payload_from_html on every markup of       *)
(* Markups                                                                  *)

\* what one pattern may find: nothing, a text json.loads rejects, or a text
\* that holds an object: one with bets, one with an empty booking, or {}
CaptureSamples ==
    { NoCapture,
      BadCapture,
      JsonCapture(("bets" :> TopList(<<ObjectItem(("home" :> NameX) @@ ("away" :> NameY))>>))),
      JsonCapture(("booking" :> TopList(<<>>))),
      JsonCapture(<<>>) }

\* the markups, by what each of the five patterns finds in them
Markups ==
    {<<a, b, c, d, e>> : a \in CaptureSamples, b \in CaptureSamples, c \in CaptureSamples,
                         d \in CaptureSamples, e \in CaptureSamples}

InitHtml ==
    /\ markup \in Markups
    /\ htmlOut = <<>>
    /\ htmlPc = "call"
    /\ TextIdle
    /\ PayloadIdle
    /\ ConvertIdle
    /\ MarketsIdle
    /\ CodeIdle
    /\ ChatIdle

CallExtractJson ==
    /\ htmlPc = "call"
    /\ htmlOut' = extract_json_payload_from_html(markup)
    /\ htmlPc' = "done"
    /\ UNCHANGED <<markup, textVars, payVars, convVars, mkVars, codeVars, chatVars>>

NextHtml == CallExtractJson

SpecHtml == InitHtml /\ [][NextHtml]_vars

-----------------------------------------------------------------------------
(* Claims about convert and fetch_sportybet_slip_playwright *)

\* C1: a convert request whose from_platform equals its to_platform is
\* answered with ok = false, and neither the resolver nor the demo table has
\* been used when the response is there.
C1_SamePlatformRejectedFirst ==
    (pc # "idle" /\ req.from_platform = req.to_platform) =>
        /\ pc = "responded"
        /\ response.ok = FALSE
        /\ resolverCalls = 0
        /\ demoLookups = 0

\* a request from sportybet to sportybet has been answered
C1_Witness ==
    /\ pc = "responded"
    /\ req.from_platform = "sportybet"
    /\ req.to_platform = "sportybet"
    /\ ~response.ok

\* C2: whatever the page-fetch tool or a parser does at any step, the
\* resolver ends by returning a slip or None; no exception leaves it.
C2_ResolverNeverFaults ==
    /\ slip.k # "raise"
    /\ pc = "returned" => slip.k \in {"slip", "none"}
    /\ pc = "faulted" => slip.k = "slip"

\* the normalizer raised in the middle of a resolution and the resolver
\* returned None
C2_Witness ==
    /\ pc = "returned"
    /\ caught = "AttributeError"
    /\ slip = NoSlip

\* C3: a navigation failure never ends the resolution: the next url of the
\* list is navigated, every url at most once and in list order, and legs
\* found at a url after a failed one are returned as the slip.
C3_NavigationFailureMovesOn ==
    /\ \A i, j \in 1..Len(navs) : i < j => navs[i] < navs[j]
    /\ \A u \in navFailed :
          u < 4 => \/ \E i \in 1..Len(navs) : navs[i] = u + 1
                   \/ pc = "goto" /\ urlIdx = u + 1
    /\ \A i \in 1..Len(tried) :
          (tried[i].legs # <<>> /\ \E u \in navFailed : u < tried[i].url) =>
              slip = SlipOf(tried[i].legs)

\* the first and the third url failed to load and the fourth gave the slip
C3_Witness ==
    /\ pc = "returned"
    /\ navFailed = {1, 3}
    /\ navs = <<1, 2, 3, 4>>
    /\ slip.k = "slip"
    /\ tried[Len(tried)].url = 4

\* strategy a stands before strategy b: an earlier url, or the same url and
\* an earlier selector, the embedded payload after the five selectors
StandsBefore(a, b) == a.url < b.url \/ (a.url = b.url /\ a.stage < b.stage)

\* C4: the strategies run in the order url by url, within a url selector by
\* selector and the embedded payload only after all five selectors gave no
\* legs; the first one that gives legs ends the resolution, its legs are
\* the slip returned, and nothing is queried or navigated after it.
C4_FirstYieldingStrategyWins ==
    /\ \A i, j \in 1..Len(tried) : i < j => StandsBefore(tried[i], tried[j])
    /\ \A i \in 1..Len(tried) :
          /\ \E n \in 1..Len(navs) : navs[n] = tried[i].url
          /\ tried[i].stage > 1 =>
                /\ i > 1
                /\ tried[i - 1].url = tried[i].url
                /\ tried[i - 1].stage = tried[i].stage - 1
                /\ tried[i - 1].legs = <<>>
          /\ tried[i].legs # <<>> =>
                /\ i = Len(tried)
                /\ pc \in {"returned", "responded", "faulted"}
                /\ slip = SlipOf(tried[i].legs)
                /\ navs[Len(navs)] = tried[i].url
    /\ (slip.k = "slip" /\ resolverCalls > 0) =>
          /\ Len(tried) > 0
          /\ tried[Len(tried)].legs = slip.legs

\* the second url gave the slip from its embedded payload, after the first
\* url and the five selectors of the second gave nothing
C4_Witness ==
    /\ pc = "returned"
    /\ slip.k = "slip"
    /\ Len(tried) = 12
    /\ tried[12].url = 2
    /\ tried[12].stage = 6
    /\ navs = <<1, 2>>

\* C5: when the resolver has returned, on any path, the page-fetch tool it
\* acquired is released: neither the tool instance nor its browser is open.
C5_ToolReleased ==
    pc \in {"returned", "responded", "faulted"} => (pw # "open" /\ browser # "open")

\* an exception in the middle of a resolution, the browser open by then
C5_Witness ==
    /\ pc = "returned"
    /\ caught = "PlaywrightError"
    /\ Len(tried) > 0
    /\ pw = "stopped"
    /\ browser = "closed"

\* C6: a convert response with ok = false has no converted_code and no
\* preview, for a same-platform request and for an unresolved code alike.
C6_FailureCarriesNothing ==
    (pc = "responded" /\ ~response.ok) =>
        (response.converted_code = NoneV /\ response.preview = NoPreview)

\* the resolver ran and found nothing, and the failure response is there
C6_Witness ==
    /\ pc = "responded"
    /\ ~response.ok
    /\ resolverCalls = 1
    /\ Len(tried) > 0

\* C7: no slip with zero legs counts as a success: the slip the resolver
\* returns has a leg, and a response with ok = true has a preview with as
\* many legs as the slip, at least one.
C7_NoEmptySlipSucceeds ==
    /\ slip.k = "slip" => Len(slip.legs) >= 1
    /\ (pc = "responded" /\ response.ok) =>
          /\ response.preview.k = "slip"
          /\ Len(response.preview.legs) >= 1
          /\ Len(response.preview.legs) = Len(slip.legs)

\* a successful response to a resolved sportybet code with two legs, after a
\* selector text without legs
C7_Witness ==
    /\ pc = "responded"
    /\ response.ok
    /\ resolverCalls = 1
    /\ Len(response.preview.legs) = 2
    /\ Len(tried) > 1

\* C15: a failure of the embedded-payload step at one url, be it the
\* markup extraction, a malformed payload or the normalizer, is absorbed
\* there: when the resolver has returned None after a payload step that
\* gave no legs, every url of the list has been navigated.
C15_PayloadFailureAbsorbed ==
    (/\ pc = "returned"
     /\ slip = NoSlip
     /\ tried # <<>>
     /\ tried[Len(tried)].stage = PayloadStage) =>
        navs = [i \in 1..Len(urls) |-> i]

\* the same for the payload steps in which nothing raised: no markup
\* matched, the capture was malformed, or the payload held no legs
QuietPayloadFailureAbsorbed ==
    (/\ pc = "returned"
     /\ slip = NoSlip
     /\ caught = "none"
     /\ tried # <<>>
     /\ tried[Len(tried)].stage = PayloadStage) =>
        navs = [i \in 1..Len(urls) |-> i]

-----------------------------------------------------------------------------
(* Claims about parse_slip_from_text *)

\* the three separator words, whatever their case
IsVersusWord(w) ==
    [i \in 1..Len(w) |-> Lower(w[i])] \in {<<"v">>, <<"v", "s">>, <<"v", ".">>}

AllSpace(s) == \A i \in 1..Len(s) : IsSpace(s[i])

\* seg is a separator word with whitespace on both sides
IsVersusSeparator(seg) ==
    \E i \in 2..Len(seg) : \E j \in i..(Len(seg) - 1) :
        /\ AllSpace(SubSeq(seg, 1, i - 1))
        /\ IsVersusWord(SubSeq(seg, i, j))
        /\ AllSpace(SubSeq(seg, j + 1, Len(seg)))

\* the places <<a, b>> where line[a..b] is a separator between two names
VersusSplits(line) ==
    {ab \in (1..Len(line)) \X (1..Len(line)) :
        /\ ab[1] <= ab[2]
        /\ IsVersusSeparator(SubSeq(line, ab[1], ab[2]))
        /\ Strip(SubSeq(line, 1, ab[1] - 1)) # <<>>
        /\ Strip(SubSeq(line, ab[2] + 1, Len(line))) # <<>>}

HasVersus(line) == VersusSplits(line) # {}

VersusLines(t) == SelectSeq(SplitLines(t), HasVersus)

\* leg is what the claim promises for line: the names on the two sides of a
\* separator of the line, trimmed, and the fixed market, pick and odds
IsLegOfLine(leg, line) ==
    \E ab \in VersusSplits(line) :
        /\ leg.home = Str(Strip(SubSeq(line, 1, ab[1] - 1)))
        /\ leg.away = Str(Strip(SubSeq(line, ab[2] + 1, Len(line))))
        /\ leg.market = Str(UnknownMarket)
        /\ leg.pick = Str(<<>>)
        /\ leg.odds = NoneV

\* C8: parse_slip_from_text emits exactly one leg per line that holds a
\* versus-separator between two names, in line order, home the trimmed text
\* left of the separator and away the trimmed text right of it, market
\* "Unknown", pick "" and odds absent; other lines give no leg, and when no
\* line has a separator the result is None, not an empty list or an error.
C8_OneLegPerVersusLine ==
    textPc = "done" =>
        LET hits == VersusLines(text)
        IN  IF hits = <<>> THEN textOut = RetNone
            ELSE /\ textOut.k = "legs"
                 /\ Len(textOut.legs) = Len(hits)
                 /\ \A i \in 1..Len(hits) : IsLegOfLine(textOut.legs[i], hits[i])

\* a three-line text with a line that has no separator between two lines
\* that have one, parsed into two legs
C8_Witness ==
    /\ textPc = "done"
    /\ Len(SplitLines(text)) = 3
    /\ ~HasVersus(SplitLines(text)[2])
    /\ Strip(SplitLines(text)[2]) # <<>>
    /\ textOut.k = "legs"
    /\ Len(textOut.legs) = 2
    /\ textOut.legs[1].home # textOut.legs[2].home

\* the letters of the separator forms, whatever their case
C16_Fold(c) ==
    CASE c = "V" -> "v"
      [] c = "S" -> "s"
      [] OTHER -> c

\* the separator forms v, vs and v.
C16_Forms == {<<"v">>, <<"v", "s">>, <<"v", ".">>}

\* the same and each of them with a period after it: v., vs., v..
C16_FormsWithPeriod == C16_Forms \cup {Append(f, ".") : f \in C16_Forms}

\* line has one of the forms with whitespace before and after it and a
\* non-empty name on each side
SeparatedBy(line, forms) ==
    \E a \in 2..Len(line) : \E b \in a..(Len(line) - 1) :
        /\ [i \in 1..(b - a + 1) |-> C16_Fold(line[a + i - 1])] \in forms
        /\ IsSpace(line[a - 1])
        /\ IsSpace(line[b + 1])
        /\ Strip(SubSeq(line, 1, a - 1)) # <<>>
        /\ Strip(SubSeq(line, b + 1, Len(line))) # <<>>

\* how many lines of t have one of the forms between two names
LinesSeparatedBy(t, forms) ==
    Cardinality({i \in 1..Len(SplitLines(t)) : SeparatedBy(SplitLines(t)[i], forms)})

\* C16 as stated: every line with one of the forms v, vs, v. or one of them
\* followed by a further period (vs., v..), in any case, between whitespace
\* and two non-empty names yields a leg.
C16_TrailingPeriodRecognised ==
    (textPc = "done" /\ LinesSeparatedBy(text, C16_FormsWithPeriod) > 0) =>
        /\ textOut.k = "legs"
        /\ Len(textOut.legs) = LinesSeparatedBy(text, C16_FormsWithPeriod)

\* C16: parse_slip_from_text recognises, in any case, the separator forms
\* v, vs and v., the period standing in place of the s and not after it,
\* whenever the form has whitespace on both sides and a non-empty name on
\* each side; each such line yields a leg.
C16_SeparatorFormsRecognised ==
    (textPc = "done" /\ LinesSeparatedBy(text, C16_Forms) > 0) =>
        /\ textOut.k = "legs"
        /\ Len(textOut.legs) = LinesSeparatedBy(text, C16_Forms)

\* three lines, separated by VS, by v. and by v, gave three legs
C16_Witness ==
    /\ textPc = "done"
    /\ SplitLines(text) =
          << <<"B", " ", "V", "S", " ", "A">>,
             <<"A", "B", " ", "v", ".", " ", "B">>,
             <<" ", "B", " ", "v", " ", "A", " ">> >>
    /\ textOut.k = "legs"
    /\ Len(textOut.legs) = 3

\* C17: every leg parse_slip_from_text emits, on any text, has a home and
\* an away that are non-empty and trimmed, and a leg list returned is never
\* empty.
C17_NamesNonEmpty ==
    textOut.k = "legs" =>
        /\ textOut.legs # <<>>
        /\ \A i \in 1..Len(textOut.legs) :
              /\ textOut.legs[i].home.k = "str"
              /\ textOut.legs[i].away.k = "str"
              /\ Strip(textOut.legs[i].home.s) # <<>>
              /\ Strip(textOut.legs[i].away.s) # <<>>
              /\ Strip(textOut.legs[i].home.s) = textOut.legs[i].home.s
              /\ Strip(textOut.legs[i].away.s) = textOut.legs[i].away.s

\* a line with whitespace around it and around its names gave a leg with
\* the bare names
C17_Witness ==
    /\ textPc = "done"
    /\ text = <<" ", "B", " ", "v", " ", "A", " ">>
    /\ textOut = RetLegs(<<[home |-> Str(<<"B">>), away |-> Str(<<"A">>),
                            market |-> Str(UnknownMarket), pick |-> Str(<<>>),
                            odds |-> NoneV]>>)

-----------------------------------------------------------------------------
(* Claims about parse_slip_from_payload *)

\* the priority order of the top-level keys, as the claim gives it
C9_Priority == <<"booking", "slip", "bets", "items", "data">>

\* the value under key is a non-empty ordered sequence
Qualifies(p, key) ==
    key \in DOMAIN p /\ p[key].k = "list" /\ Len(p[key].items) > 0

\* the place in the priority order of the first key that qualifies, 0 for none
FirstQualifying(p) ==
    LET q == {i \in 1..Len(C9_Priority) : Qualifies(p, C9_Priority[i])}
    IN  IF q = {} THEN 0 ELSE CHOOSE i \in q : \A j \in q : i <= j

\* C9: parse_slip_from_payload takes its legs from the first key in the
\* order booking, slip, bets, items, data whose value is a non-empty
\* sequence and from no other; no key after that one is looked up; and when
\* no key qualifies the result is None.
C9_FirstSequenceKeyWins ==
    payPc = "done" =>
        LET f == FirstQualifying(payload)
        IN  IF f = 0 THEN payOut = RetNone
            ELSE /\ payRead = SubSeq(C9_Priority, 1, f)
                 /\ payOut.k # "none"
                 /\ payOut.k = "legs" =>
                        LET items == payload[C9_Priority[f]].items
                        IN  payOut.legs = [i \in 1..Len(items) |-> ItemLeg(items[i].d)]

\* booking and bets both hold non-empty sequences that give different legs,
\* and legs were returned
C9_Witness ==
    /\ payPc = "done"
    /\ Qualifies(payload, "booking")
    /\ Qualifies(payload, "bets")
    /\ payload["booking"] # payload["bets"]
    /\ payOut.k = "legs"
    /\ payRead = <<"booking">>

\* a value that counts as present and non-empty
ClaimNonEmpty(v) == v # NoneV /\ v # Str(<<>>) /\ v # Num(0)

\* the first present non-empty value among the aliases, else the default
FirstNonEmpty(it, aliases, default) ==
    LET has == {i \in 1..Len(aliases) :
                    it.isdict /\ aliases[i] \in DOMAIN it.d /\ ClaimNonEmpty(it.d[aliases[i]])}
    IN  IF has = {} THEN default
        ELSE it.d[aliases[CHOOSE i \in has : \A j \in has : i <= j]]

\* the leg the claim promises for an item; the odds are the number the
\* chosen value spells, absent when it spells none
ClaimLeg(it) ==
    [home |-> FirstNonEmpty(it, <<"home", "team1", "homeName">>, Str(<<>>)),
     away |-> FirstNonEmpty(it, <<"away", "team2", "awayName">>, Str(<<>>)),
     market |-> FirstNonEmpty(it, <<"market", "marketName", "type">>, Str(<<>>)),
     pick |-> FirstNonEmpty(it, <<"pick", "selection">>, Str(<<>>)),
     odds |-> CoerceOdds(FirstNonEmpty(it, <<"odds", "price", "odd">>, NoneV))]

SelectedItems(p) == p[C9_Priority[FirstQualifying(p)]].items

\* C10: for the selected item sequence parse_slip_from_payload emits exactly
\* one leg per item in item order, each field the first present non-empty
\* value among its aliases, "" for a text field and absent for the odds when
\* no alias has one.
C10_OneLegPerItem ==
    (payPc = "done" /\ FirstQualifying(payload) # 0) =>
        /\ payOut.k = "legs"
        /\ Len(payOut.legs) = Len(SelectedItems(payload))
        /\ \A i \in 1..Len(SelectedItems(payload)) :
                payOut.legs[i] = ClaimLeg(SelectedItems(payload)[i])

\* the same on the sequences whose items are all objects
LegsOfObjectItems ==
    (/\ payPc = "done"
     /\ FirstQualifying(payload) # 0
     /\ \A i \in 1..Len(SelectedItems(payload)) : SelectedItems(payload)[i].isdict) =>
        /\ payOut.k = "legs"
        /\ Len(payOut.legs) = Len(SelectedItems(payload))
        /\ \A i \in 1..Len(SelectedItems(payload)) :
                payOut.legs[i] = ClaimLeg(SelectedItems(payload)[i])


\* the odds values of the domain that spell no number and are not false
C19_Uncoercible == {Str(<<"1", ".", "x">>), Other}

\* the leg of item it has its odds absent when the odds value chosen for it
\* cannot be coerced
OddsAbsentIfUncoercible(it, leg) ==
    (it.isdict /\ FirstNonEmpty(it, <<"odds", "price", "odd">>, NoneV) \in C19_Uncoercible) =>
        leg.odds = NoneV

\* C19: parse_slip_from_payload is total: on every payload, item sequences
\* with elements that are no objects and items with uncoercible odds
\* included, it returns legs or None and never raises; an item whose odds
\* cannot be coerced still gives its leg, with the odds absent.
C19_PayloadNormalizerTotal ==
    payPc = "done" =>
        /\ payOut.k \in {"legs", "none"}
        /\ FirstQualifying(payload) # 0 =>
              /\ Len(payOut.legs) = Len(SelectedItems(payload))
              /\ \A i \in 1..Len(SelectedItems(payload)) :
                    OddsAbsentIfUncoercible(SelectedItems(payload)[i], payOut.legs[i])

\* the part about the odds: whenever legs are returned, there is one for
\* each item, and the odds of an item with uncoercible odds are absent
UncoercibleOddsAbsent ==
    (payPc = "done" /\ payOut.k = "legs") =>
        /\ Len(payOut.legs) = Len(SelectedItems(payload))
        /\ \A i \in 1..Len(SelectedItems(payload)) :
              OddsAbsentIfUncoercible(SelectedItems(payload)[i], payOut.legs[i])

-----------------------------------------------------------------------------
(* Claims about map_markets and generate_booking_code_for_demo *)

\* the table has an entry for the market of the leg on the platform
HasEntry(plat, leg) ==
    \E e \in MARKET_MAP : e.plat = plat /\ leg.market = Str(e.market)

\* C11: map_markets is total: on every leg list it returns a leg list, of
\* the same length and in the same order, with home, away, pick and odds of
\* every leg as given, and the market as given too when the table has no
\* entry for the source platform and that market.
C11_MapMarketsTotal ==
    mkPc \in {"mapped", "back"} =>
        /\ mkOut.k = "legs"
        /\ Len(mkOut.legs) = Len(mkLegs)
        /\ \A i \in 1..Len(mkLegs) :
              /\ mkOut.legs[i].home = mkLegs[i].home
              /\ mkOut.legs[i].away = mkLegs[i].away
              /\ mkOut.legs[i].pick = mkLegs[i].pick
              /\ mkOut.legs[i].odds = mkLegs[i].odds
              /\ ~HasEntry(mkFrom, mkLegs[i]) => mkOut.legs[i].market = mkLegs[i].market

\* the same on the leg lists whose markets can all be hashed
MapMarketsOnHashable ==
    (mkPc \in {"mapped", "back"} /\ \A i \in 1..Len(mkLegs) : mkLegs[i].market # Other) =>
        /\ mkOut.k = "legs"
        /\ Len(mkOut.legs) = Len(mkLegs)
        /\ \A i \in 1..Len(mkLegs) :
              /\ mkOut.legs[i].home = mkLegs[i].home
              /\ mkOut.legs[i].away = mkLegs[i].away
              /\ mkOut.legs[i].pick = mkLegs[i].pick
              /\ mkOut.legs[i].odds = mkLegs[i].odds
              /\ ~HasEntry(mkFrom, mkLegs[i]) => mkOut.legs[i].market = mkLegs[i].market


\* the ten decimal digits, as the claim counts them
C12_Digits == {"0", "1", "2", "3", "4", "5", "6", "7", "8", "9"}

\* C12: for every target platform and every hash of the source code,
\* negative or not, the converted code is a two-letter prefix followed by
\* exactly five decimal digits, the prefix BJ when the target is bet9ja and
\* SP otherwise.
C12_CodeFormat ==
    codePc = "done" =>
        /\ Len(codeOut) = 7
        /\ SubSeq(codeOut, 1, 2) = (IF codeTo = "bet9ja" THEN <<"B", "J">> ELSE <<"S", "P">>)
        /\ \A i \in 3..7 : codeOut[i] \in C12_Digits

\* a negative hash whose remainder has one digit, for bet9ja: BJ00001
C12_Witness ==
    /\ codePc = "done"
    /\ codeTo = "bet9ja"
    /\ codeHash = -100001
    /\ codeOut = <<"B", "J", "0", "0", "0", "0", "1">>

-----------------------------------------------------------------------------
(* Claims about ConnectionManager *)

\* the elements of list that are not in S, in their order
RECURSIVE Without(_, _)
Without(list, S) ==
    IF list = <<>> THEN <<>>
    ELSE (IF Head(list) \in S THEN <<>> ELSE <<Head(list)>>) \o Without(Tail(list), S)

\* how often send_text was called on q
Times(sends, q) == Cardinality({i \in 1..Len(sends) : sends[i].to = q})

\* the peers send_text was called on, in call order
SentTo(sends) == [i \in 1..Len(sends) |-> sends[i].to]

\* the peers a send to which failed
FailedOf(sends) == {sends[i].to : i \in {j \in 1..Len(sends) : ~sends[j].ok}}

\* C13: a broadcast during which no other handler changed the registry
\* attempts a send to every peer registered when it began, the sender
\* included, each once and whether or not sends failed, and when it returns
\* the registry is the one it began with less exactly the peers whose send
\* failed.
C13_BroadcastReachesAll ==
    \A p \in Peers :
        (bDone[p] /\ ~bChanged[p]) =>
            /\ SentTo(bSent[p]) = bStart[p]
            /\ bEnd[p] = Without(bStart[p], FailedOf(bSent[p]))

\* peer 2 broadcast to peer 1 and itself undisturbed: the send to peer 1
\* failed, the sender was still sent to, and peer 1 left the registry
C13_Witness ==
    /\ bDone[2]
    /\ ~bChanged[2]
    /\ bStart[2] = <<1, 2>>
    /\ bSent[2] = <<[to |-> 1, ok |-> FALSE], [to |-> 2, ok |-> TRUE]>>
    /\ bEnd[2] = <<2>>

\* C14: whatever connect, disconnect or other broadcast runs at the awaited
\* sends of a broadcast, every peer registered from its start to its end
\* is sent the message exactly once, and it removes no peer but those whose
\* send failed.
C14_SafeUnderInterleaving ==
    \A p \in Peers :
        bDone[p] =>
            /\ \A q \in Members(bStart[p]) \ bGone[p] : Times(bSent[p], q) = 1
            /\ (Members(bStart[p]) \ Members(bEnd[p])) \subseteq
                    (bGone[p] \cup FailedOf(bSent[p]))

-----------------------------------------------------------------------------
(* Claims about extract_json_payload_from_html *)

\* the patterns, by their place in the list, whose capture parses
Parsing(html) == {i \in 1..Len(html) : html[i].k = "json"}

C20_Mapped ==
    { <<"sportybet", M_1X2>>, <<"sportybet", M_GG>>, <<"sportybet", M_OU25>>,
      <<"bet9ja", M_MatchResult>>, <<"bet9ja", M_BothTeams>>, <<"bet9ja", M_OverUnder>> }

\* C20: the market translation round-trips on the mapped markets: for a leg
\* whose market has a table entry on platform P, translating from P to the
\* other platform and translating the result back from the other platform
\* to P gives the market of the leg again, the leg otherwise as it was.
C20_MappedMarketsRoundTrip ==
    mkPc = "back" =>
        /\ mkBack.k = "legs"
        /\ Len(mkBack.legs) = Len(mkLegs)
        /\ \A i \in 1..Len(mkLegs) :
              (\E pm \in C20_Mapped : pm[1] = mkFrom /\ mkLegs[i].market = Str(pm[2])) =>
                  /\ mkBack.legs[i].market = mkLegs[i].market
                  /\ mkBack.legs[i] = mkLegs[i]

\* a GG leg and a 1X2 leg of sportybet went to bet9ja as Both Teams To
\* Score and Match Result and came back as GG and 1X2
C20_Witness ==
    /\ mkPc = "back"
    /\ mkFrom = "sportybet"
    /\ Len(mkLegs) = 2
    /\ mkLegs[1].market = Str(M_GG)
    /\ mkLegs[2].market = Str(M_1X2)
    /\ mkOut.legs[1].market = Str(M_BothTeams)
    /\ mkOut.legs[2].market = Str(M_MatchResult)
    /\ mkBack.legs = mkLegs

=============================================================================
